---- MODULE Spec2Model ----
(***************************************************************************)
(* SEO-Audit-Machine: the catalog store (database.py), the sitemap reader  *)
(* (sitemap_parser.py) and the ingestion orchestrator                      *)
(* (seo-audit-machine.py), as state machines.                              *)
(*                                                                         *)
(* Optional values (Python None / SQL NULL) are modelled as sequences of   *)
(* length at most one: None is <<>>, a present value v is <<v>>.           *)
(* Timestamps (SQLite datetime('now'), one-second resolution) are the      *)
(* integer clock `now`.                                                    *)
(***************************************************************************)
EXTENDS Integers, Sequences, FiniteSets, TLC

VARIABLES
    \* ---- the catalog store (one SQLite file with the schema applied) ----
    sites,        \* rows of table sites
    sitemaps,     \* rows of table sitemaps
    urls,         \* rows of table urls
    inspections,  \* rows of table inspections
    now,          \* the clock read by datetime('now')
    call,         \* the last store operation called, with its arguments and
                  \* whether its SELECT found the row (`if row:`)
    ret,          \* what that call returned: <<id>>, or <<>> when it raised
    ncalls,       \* number of store operations called so far
    \* ---- the sitemap reader ----
    web,          \* the documents fetch_xml finds, by location
    roots,        \* discover_from_roots: the root locations
    cap,          \* discover_from_roots: max_urls
    out,          \* discover_from_roots: the entries yielded
    rpc,          \* "ready" before the generator is consumed, then "done"
                  \* when it finished and "raised" when it raised
    \* ---- one ingest-sitemaps run ----
    ipc,          \* position in _cmd_ingest_sitemaps
    site_arg,     \* args.site
    queue,        \* the sitemap rows still to be processed
    pending,      \* parse_sitemap_urls: the entries not yet upserted
    failing,      \* whether the generator raises once they are consumed
    committed,    \* the rows of urls as of the connection's last commit
    count,        \* parse_sitemap_urls: count
    total_urls,   \* _cmd_ingest_sitemaps: total_urls
    upserted,     \* the argument lists of the upsert_url calls of the run
    \* ---- the storage files and the call that is opening or migrating one ----
    files,        \* by path: what the SQLite file holds
    proc          \* the connect / init_db / migrate call in progress

storeVars == <<sites, sitemaps, urls, inspections, now, call, ret, ncalls>>
readerVars == <<web, roots, cap, out, rpc>>
ingestVars == <<ipc, site_arg, queue, pending, failing, committed, count,
                total_urls, upserted>>
migVars == <<files, proc>>
vars == <<storeVars, readerVars, ingestVars, migVars>>

\* ------------------------------------------------------------------------
\* Bounds of the model
\* ------------------------------------------------------------------------
MaxCalls == 3   \* store operations in one behaviour of Spec
MaxUrlCalls == 3      \* store operations in one behaviour of SpecUrls
MaxInspectCalls == 5  \* store operations in one behaviour of SpecInspect
MaxTime  == 1   \* the clock runs 0..MaxTime
MaxItems == 2   \* child elements of one sitemap document
MaxCap   == 3   \* largest max_urls tried
MaxScriptRuns == 2   \* script runs on a file after which calls run to the end
MaxRoots == 2   \* root locations given to discover_from_roots

\* ------------------------------------------------------------------------
\* Values
\* ------------------------------------------------------------------------
None == <<>>
Some(v) == <<v>>
IsNone(x) == x = <<>>
Val(x) == x[1]

Raised == <<>>
Returned(v) == <<v>>

BaseUrls == {"https://a/", "https://b/"}
Names == {None, Some(""), Some("owner"), Some("full")}
SiteIds == 1..2
SitemapUrls == {"sm1", "sm2"}
PageUrls == {"p1", "p2"}
UrlIds == 1..2
Stamps == {None, Some("2024")}
OptBools == {None, Some(TRUE), Some(FALSE)}
HttpStatuses == {None, Some(200)}
ChangeFreqs == {None, Some("daily")}
Priorities == {None, Some(5)}
IndexStatuses == {None, Some("INDEXED"), Some("NEUTRAL")}

Max(S) == CHOOSE x \in S : \A y \in S : y <= x

\* Python truthiness of an Optional[str] argument: None and "" are falsy.
TruthyStr(x) == ~IsNone(x) /\ Val(x) # ""

\* Python truthiness of an Optional[bool] argument: None and False are falsy.
TruthyBool(x) == ~IsNone(x) /\ Val(x)

\* Python int(bool)
IntOfBool(b) == IF b THEN 1 ELSE 0

\* SQL COALESCE(a, b)
Coalesce(a, b) == IF ~IsNone(a) THEN a ELSE b

\* INTEGER PRIMARY KEY AUTOINCREMENT: one more than the largest id ever used
\* (no operation deletes rows, so that is the largest id present).
LastRowId(rows) == IF rows = {} THEN 1 ELSE Max({r.id : r \in rows}) + 1

\* FOREIGN KEY(...) REFERENCES parent(id), enforced by PRAGMA foreign_keys = ON
ForeignKeyOk(parentRows, id) == \E r \in parentRows : r.id = id

\* ------------------------------------------------------------------------
\* add_site
\* ------------------------------------------------------------------------
SiteByBaseUrl(base_url) == {r \in sites : r.base_url = base_url}

\* UPDATE sites SET name = COALESCE(?, name) WHERE id = ?, run only `if name:`
AddSiteUpdatedName(stored, name) ==
    IF TruthyStr(name) THEN Coalesce(name, stored) ELSE stored

add_site(base_url, name) ==
    /\ LET found == SiteByBaseUrl(base_url) IN
       IF found # {}
       THEN LET row == CHOOSE r \in found : TRUE IN
            /\ sites' = (sites \ {row}) \cup
                          {[row EXCEPT !.name = AddSiteUpdatedName(row.name, name)]}
            /\ ret' = Returned(row.id)
       ELSE LET id == LastRowId(sites) IN
            /\ sites' = sites \cup
                          {[id |-> id, base_url |-> base_url, name |-> name,
                            created_at |-> now]}
            /\ ret' = Returned(id)
    /\ call' = [op |-> "add_site", base_url |-> base_url, name |-> name,
                hit |-> SiteByBaseUrl(base_url) # {}]
    /\ ncalls' = ncalls + 1
    /\ UNCHANGED <<sitemaps, urls, inspections, now>>

\* ------------------------------------------------------------------------
\* upsert_sitemap
\* ------------------------------------------------------------------------
SitemapByKey(site_id, url) == {r \in sitemaps : r.site_id = site_id /\ r.url = url}

\* int(is_pending) if is_pending is not None else None
IsPendingParam(is_pending) ==
    IF ~IsNone(is_pending) THEN Some(IntOfBool(Val(is_pending))) ELSE None

\* A plausible slip: the UPDATE keeps a stored value when None is supplied,
\* as upsert_url does.
UpdateSitemapRow_KeepIfNone(row, last_submitted, is_pending) ==
    [row EXCEPT !.last_submitted = IF IsNone(last_submitted) THEN @ ELSE last_submitted,
                !.is_pending = IF IsNone(is_pending) THEN @
                               ELSE IsPendingParam(is_pending)]

\* UPDATE sitemaps SET last_submitted = ?, is_pending = ? WHERE id = ?
UpdateSitemapRow(row, last_submitted, is_pending) ==
    [row EXCEPT !.last_submitted = last_submitted,
                !.is_pending = IsPendingParam(is_pending)]

upsert_sitemap(site_id, url, last_submitted, is_pending) ==
    /\ LET found == SitemapByKey(site_id, url) IN
       IF found # {}
       THEN LET row == CHOOSE r \in found : TRUE IN
            /\ sitemaps' = (sitemaps \ {row}) \cup
                   {UpdateSitemapRow(row, last_submitted, is_pending)}
            /\ ret' = Returned(row.id)
       ELSE IF ForeignKeyOk(sites, site_id)
       THEN LET id == LastRowId(sitemaps) IN
            /\ sitemaps' = sitemaps \cup
                   {[id |-> id, site_id |-> site_id, url |-> url,
                     last_submitted |-> last_submitted,
                     is_pending |-> IsPendingParam(is_pending),
                     discovered_at |-> now]}
            /\ ret' = Returned(id)
       ELSE \* sqlite3.IntegrityError: `with conn` rolls back and re-raises
            /\ sitemaps' = sitemaps
            /\ ret' = Raised
    /\ call' = [op |-> "upsert_sitemap", site_id |-> site_id, url |-> url,
                last_submitted |-> last_submitted, is_pending |-> is_pending,
                hit |-> SitemapByKey(site_id, url) # {}]
    /\ ncalls' = ncalls + 1
    /\ UNCHANGED <<sites, urls, inspections, now>>

\* ------------------------------------------------------------------------
\* upsert_url
\* ------------------------------------------------------------------------
UrlByKey(site_id, url) == {r \in urls : r.site_id = site_id /\ r.url = url}

\* A plausible slip: the UPDATE sets every column from its argument, None
\* included.
UpdateUrlRow_Overwrite(row, a) ==
    [row EXCEPT
       !.in_sitemap = IF TruthyBool(a.in_sitemap) THEN 1 ELSE 0,
       !.http_status = a.http_status,
       !.last_modified = a.last_modified,
       !.change_freq = a.change_freq,
       !.priority = a.priority,
       !.last_seen = IF a.seen_now THEN Some(now) ELSE @]

\* The UPDATE branch: one "col = ?" per argument that is not None, and
\* last_seen = datetime('now') when seen_now.
UpdateUrlRow(row, a) ==
    [row EXCEPT
       !.in_sitemap = IF ~IsNone(a.in_sitemap)
                      THEN (IF Val(a.in_sitemap) THEN 1 ELSE 0) ELSE @,
       !.http_status = IF ~IsNone(a.http_status) THEN a.http_status ELSE @,
       !.last_modified = IF ~IsNone(a.last_modified) THEN a.last_modified ELSE @,
       !.change_freq = IF ~IsNone(a.change_freq) THEN a.change_freq ELSE @,
       !.priority = IF ~IsNone(a.priority) THEN a.priority ELSE @,
       !.last_seen = IF a.seen_now THEN Some(now) ELSE @]

\* The INSERT branch: INSERT INTO urls(site_id, url, in_sitemap, http_status,
\* last_seen); every other column takes its schema default.
InsertUrlRow(id, a) ==
    [id |-> id, site_id |-> a.site_id, url |-> a.url,
     first_seen |-> now,
     last_seen |-> IF (IF a.seen_now THEN 1 ELSE 0) # 0 THEN Some(now) ELSE None,
     in_sitemap |-> IF TruthyBool(a.in_sitemap) THEN 1 ELSE 0,
     http_status |-> a.http_status,
     last_crawled |-> None,
     last_modified |-> None,
     change_freq |-> None,
     priority |-> None]

\* A plausible slip: no SELECT before the INSERT.
UpsertUrlRows_AlwaysInsert(rows, a) ==
    IF ForeignKeyOk(sites, a.site_id)
    THEN rows \cup {InsertUrlRow(LastRowId(rows), a)}
    ELSE rows

\* The rows of urls after upsert_url(a), and what the call returns.
UpsertUrlRows(rows, a) ==
    LET found == {r \in rows : r.site_id = a.site_id /\ r.url = a.url} IN
    IF found # {}
    THEN LET row == CHOOSE r \in found : TRUE IN
         (rows \ {row}) \cup {UpdateUrlRow(row, a)}
    ELSE IF ForeignKeyOk(sites, a.site_id)
    THEN rows \cup {InsertUrlRow(LastRowId(rows), a)}
    ELSE rows

UpsertUrlRet(rows, a) ==
    LET found == {r \in rows : r.site_id = a.site_id /\ r.url = a.url} IN
    IF found # {}
    THEN Returned((CHOOSE r \in found : TRUE).id)
    ELSE IF ForeignKeyOk(sites, a.site_id)
    THEN Returned(LastRowId(rows))
    ELSE Raised

\* Every argument list of upsert_url over the model's values.
UrlArgs ==
    [site_id : SiteIds, url : PageUrls, in_sitemap : OptBools,
     http_status : HttpStatuses, seen_now : BOOLEAN,
     last_modified : Stamps, change_freq : ChangeFreqs, priority : Priorities]

\* The argument lists the program's two call sites build:
\* migrate_gsc_site calls upsert_url(conn, site_id, test_url), and
\* parse_sitemap_urls calls upsert_url(conn, site_id, item.loc, in_sitemap=True,
\* last_modified=item.lastmod, change_freq=item.changefreq,
\* priority=item.priority) where the reader leaves changefreq and priority None.
ProgramUrlArgs ==
    {a \in UrlArgs :
        /\ a.seen_now /\ IsNone(a.http_status)
        /\ IsNone(a.change_freq) /\ IsNone(a.priority)
        /\ \/ IsNone(a.in_sitemap) /\ IsNone(a.last_modified)
           \/ a.in_sitemap = Some(TRUE)}

upsert_url(a) ==
    /\ urls' = UpsertUrlRows(urls, a)
    /\ ret' = UpsertUrlRet(urls, a)
    /\ call' = [op |-> "upsert_url", a |-> a,
                hit |-> UrlByKey(a.site_id, a.url) # {}]
    /\ ncalls' = ncalls + 1
    /\ UNCHANGED <<sites, sitemaps, inspections, now>>

\* ------------------------------------------------------------------------
\* record_inspection, latest_inspection, not_indexed_but_internally_linked
\* ------------------------------------------------------------------------
\* Of the inspection columns only index_status is read back by the report's
\* WHERE clause; the other payload columns are written once and never
\* inspected by the store, and are left out of the row.
\* A plausible slip: one inspection row per page, replaced on each call.
InsertInspection_Replace(rows, id, url_id, index_status) ==
    {i \in rows : i.url_id # url_id} \cup
        {[id |-> id, url_id |-> url_id, inspected_at |-> now,
          index_status |-> index_status]}

\* INSERT INTO inspections (url_id, index_status, ...) VALUES (...)
InsertInspection(rows, id, url_id, index_status) ==
    rows \cup {[id |-> id, url_id |-> url_id, inspected_at |-> now,
                index_status |-> index_status]}

record_inspection(url_id, index_status) ==
    /\ IF ForeignKeyOk(urls, url_id)
       THEN LET id == LastRowId(inspections) IN
            /\ inspections' = InsertInspection(inspections, id, url_id, index_status)
            /\ ret' = Returned(id)
       ELSE /\ inspections' = inspections
            /\ ret' = Raised
    /\ call' = [op |-> "record_inspection", url_id |-> url_id,
                index_status |-> index_status]
    /\ ncalls' = ncalls + 1
    /\ UNCHANGED <<sites, sitemaps, urls, now>>

InspectionsOf(url_id) == {i \in inspections : i.url_id = url_id}

\* ORDER BY inspected_at DESC, id DESC LIMIT 1
latest_inspection(url_id) ==
    LET mine == InspectionsOf(url_id) IN
    IF mine = {} THEN None
    ELSE Some(CHOOSE i \in mine : \A j \in mine :
                 \/ j.inspected_at < i.inspected_at
                 \/ (j.inspected_at = i.inspected_at /\ j.id <= i.id))

\* WITH latest AS (... JOIN (SELECT url_id, MAX(inspected_at) AS max_t ...
\*   GROUP BY url_id) t ON t.url_id = i.url_id AND t.max_t = i.inspected_at)
LatestCte ==
    {i \in inspections :
        i.inspected_at = Max({j.inspected_at : j \in InspectionsOf(i.url_id)})}

\* urls u LEFT JOIN latest l ON l.url_id = u.id WHERE u.site_id = ? AND
\* (l.index_status IS NULL OR l.index_status != 'INDEXED'): the joined rows
\* that pass the filter, as a set of [url_id, url, index_status, insp].
\* insp is the joined inspection's id (0 for the NULL-extended row); it only
\* keeps two joined rows of one page apart.
ReportRows(site_id) ==
    LET joined ==
          UNION {
            LET ls == {l \in LatestCte : l.url_id = u.id} IN
            IF ls = {}
            THEN {[url_id |-> u.id, url |-> u.url, index_status |-> None,
                   insp |-> 0]}
            ELSE {[url_id |-> u.id, url |-> u.url,
                   index_status |-> l.index_status, insp |-> l.id] : l \in ls}
            : u \in {r \in urls : r.site_id = site_id}}
    IN {j \in joined : IsNone(j.index_status) \/ j.index_status # Some("INDEXED")}

RECURSIVE SortRows(_)
\* ORDER BY u.id; rows of one page are listed in inspection order.
SortRows(S) ==
    IF S = {} THEN <<>>
    ELSE LET m == CHOOSE x \in S : \A y \in S :
                     \/ x.url_id < y.url_id
                     \/ (x.url_id = y.url_id /\ x.insp <= y.insp)
         IN <<m>> \o SortRows(S \ {m})

not_indexed_but_internally_linked(site_id) == SortRows(ReportRows(site_id))

\* ------------------------------------------------------------------------
\* The clock
\* ------------------------------------------------------------------------
Tick ==
    /\ now < MaxTime
    /\ now' = now + 1
    /\ UNCHANGED <<sites, sitemaps, urls, inspections, call, ret, ncalls>>

\* ------------------------------------------------------------------------
\* The sitemap reader (sitemap_parser.py)
\* ------------------------------------------------------------------------
\* A fetched document is its root tag and the child elements the reader
\* looks at: for a sitemap index the <sitemap> elements, each with its <loc>
\* (None when missing or empty); for any other root the <url> elements, each
\* with its <loc> and <lastmod>.
Locs == SitemapUrls \cup {"sm3"}
LocRank(l) == IF l = "sm1" THEN 1 ELSE IF l = "sm2" THEN 2 ELSE 3

SeqUpTo(S, n) == UNION {[1..k -> S] : k \in 0..n}

UrlElements ==
    {[loc |-> None, lastmod |-> None],
     [loc |-> Some("p1"), lastmod |-> Some("2024")],
     [loc |-> Some("p2"), lastmod |-> None]}

DocsAt(l) ==
    {[tag |-> "urlset", items |-> es] : es \in SeqUpTo(UrlElements, MaxItems)}
    \cup
    {[tag |-> "sitemapindex", items |-> cs] :
        cs \in SeqUpTo({None} \cup {Some(c) : c \in {x \in Locs : LocRank(x) > LocRank(l)}},
                       MaxItems)}

\* The documents of a site that does not serve every location well: an
\* answer that makes fetch_xml raise, a body that is well-formed XML with
\* another root element (with or without <url> children), or a document as
\* above whose elements all have a <loc>.
FaultyDocsAt(l) ==
    {[tag |-> t, items |-> <<>>] : t \in {"http_error", "not_xml"}}
    \cup
    {[tag |-> t, items |-> es] :
        t \in {"urlset", "html"},
        es \in SeqUpTo({e \in UrlElements : ~IsNone(e.loc)}, MaxItems)}
    \cup
    {d \in DocsAt(l) :
        d.tag = "sitemapindex" /\ \A k \in DOMAIN d.items : ~IsNone(d.items[k])}

FaultyWebs ==
    {w \in [Locs -> UNION {FaultyDocsAt(l) : l \in Locs}] :
        \A l \in Locs : w[l] \in FaultyDocsAt(l)}

\* The finite trees of documents: an index refers only to later locations.
Webs == {w \in [Locs -> UNION {DocsAt(l) : l \in Locs}] : \A l \in Locs : w[l] \in DocsAt(l)}

\* DiscoveredURL(loc=loc, lastmod=lastmod): changefreq and priority keep
\* their dataclass default, None.
DiscoveredURL(loc, lastmod) ==
    [loc |-> loc, lastmod |-> lastmod, changefreq |-> None, priority |-> None]

\* max_urls is not None and yielded >= max_urls
CapReached(max_urls, yielded) == ~IsNone(max_urls) /\ yielded >= Val(max_urls)

\* None if max_urls is None else max(0, max_urls - yielded)
RemainingCap(max_urls, yielded) ==
    IF IsNone(max_urls) THEN None
    ELSE Some(IF Val(max_urls) - yielded > 0 THEN Val(max_urls) - yielded ELSE 0)

\* fetch_xml(url) raises: requests raises (connection error, timeout,
\* raise_for_status on a 4xx or 5xx answer) or ET.fromstring raises
\* (the body is not well-formed XML).
FetchRaises(doc) == doc.tag \in {"http_error", "not_xml"}

\* What consuming a generator gives: the entries it yields and whether it
\* then raises instead of finishing.
Yields(items, raised) == [items |-> items, raised |-> raised]

RECURSIVE Relay(_, _, _, _)
\* for item in <inner generator>: yield item; yielded += 1;
\* if max_urls is not None and yielded >= max_urls: return
\* over what `inner` produces, from its k-th entry on. An exception of the
\* inner generator leaves the loop.
Relay(inner, k, max_urls, yielded) ==
    IF k > Len(inner.items)
    THEN [items |-> <<>>, yielded |-> yielded, returned |-> FALSE,
          raised |-> inner.raised]
    ELSE IF CapReached(max_urls, yielded + 1)
    THEN [items |-> <<inner.items[k]>>, yielded |-> yielded + 1,
          returned |-> TRUE, raised |-> FALSE]
    ELSE LET rest == Relay(inner, k + 1, max_urls, yielded + 1) IN
         [items |-> <<inner.items[k]>> \o rest.items, yielded |-> rest.yielded,
          returned |-> rest.returned, raised |-> rest.raised]

RECURSIVE IterUrlset(_, _, _, _)
\* the else branch of iter_sitemap: for url_el in root.findall("sm:url")
IterUrlset(els, k, max_urls, yielded) ==
    IF k > Len(els) THEN <<>>
    ELSE IF IsNone(els[k].loc) THEN IterUrlset(els, k + 1, max_urls, yielded)
    ELSE <<DiscoveredURL(Val(els[k].loc), els[k].lastmod)>> \o
         (IF CapReached(max_urls, yielded + 1) THEN <<>>
          ELSE IterUrlset(els, k + 1, max_urls, yielded + 1))

RECURSIVE iter_sitemap(_, _)
RECURSIVE IterIndex(_, _, _, _)
\* the sitemapindex branch: for sm_el in root.findall("sm:sitemap")
IterIndex(els, k, max_urls, yielded) ==
    IF k > Len(els) THEN Yields(<<>>, FALSE)
    ELSE IF IsNone(els[k]) THEN IterIndex(els, k + 1, max_urls, yielded)
    ELSE LET r == Relay(iter_sitemap(Val(els[k]), RemainingCap(max_urls, yielded)),
                        1, max_urls, yielded) IN
         IF r.returned \/ r.raised THEN Yields(r.items, r.raised)
         ELSE LET rest == IterIndex(els, k + 1, max_urls, r.yielded) IN
              Yields(r.items \o rest.items, rest.raised)

\* What the generator iter_sitemap(url, max_urls=max_urls) yields. The
\* document is fetched when the generator is first advanced; every root tag
\* that does not end in "sitemapindex" takes the else branch.
iter_sitemap(url, max_urls) ==
    LET root == web[url] IN
    IF FetchRaises(root) THEN Yields(<<>>, TRUE)
    ELSE IF root.tag = "sitemapindex"
    THEN IterIndex(root.items, 1, max_urls, 0)
    ELSE Yields(IterUrlset(root.items, 1, max_urls, 0), FALSE)

RECURSIVE DiscoverLoop(_, _, _, _)
\* for root_url in roots: for item in iter_sitemap(root_url, ...): ...
DiscoverLoop(rs, k, max_urls, yielded) ==
    IF k > Len(rs) THEN Yields(<<>>, FALSE)
    ELSE LET r == Relay(iter_sitemap(rs[k], RemainingCap(max_urls, yielded)),
                        1, max_urls, yielded) IN
         IF r.returned \/ r.raised THEN Yields(r.items, r.raised)
         ELSE LET rest == DiscoverLoop(rs, k + 1, max_urls, r.yielded) IN
              Yields(r.items \o rest.items, rest.raised)

\* What the generator discover_from_roots(roots, max_urls=...) yields.
discover_from_roots(rs, max_urls) == DiscoverLoop(rs, 1, max_urls, 0)

Caps == {None} \cup {Some(m) : m \in 0..MaxCap}
RootLists == UNION {[1..k -> Locs] : k \in 1..MaxRoots}

\* A caller consumes list(discover_from_roots(roots, max_urls=cap)).
Discover ==
    /\ rpc = "ready"
    /\ LET y == discover_from_roots(roots, cap) IN
       /\ out' = y.items
       /\ rpc' = IF y.raised THEN "raised" ELSE "done"
    /\ UNCHANGED <<web, roots, cap>>

\* ------------------------------------------------------------------------
\* The ingestion orchestrator (seo-audit-machine.py)
\* ------------------------------------------------------------------------
RECURSIVE RowsById(_)
\* ORDER BY id
RowsById(rows) ==
    IF rows = {} THEN <<>>
    ELSE LET m == CHOOSE x \in rows : \A y \in rows : x.id <= y.id
         IN <<m>> \o RowsById(rows \ {m})

get_sitemaps_by_url(site_url) ==
    LET found == SiteByBaseUrl(site_url) IN
    IF found = {} THEN <<>>
    ELSE LET site_id == (CHOOSE r \in found : TRUE).id IN
         IF site_id = 0 THEN <<>>
         ELSE RowsById({r \in sitemaps : r.site_id = site_id})

\* _cmd_ingest_sitemaps up to the loop over the sitemaps.
IngestStart(site_url) ==
    /\ ipc = "idle"
    /\ site_arg' = Some(site_url)
    /\ LET sms == get_sitemaps_by_url(site_url) IN
       IF sms = <<>>
       THEN ipc' = "done" /\ queue' = <<>>
       ELSE ipc' = "loop" /\ queue' = sms
    /\ total_urls' = 0
    /\ committed' = urls
    /\ UNCHANGED <<pending, failing, count, upserted, storeVars, readerVars, migVars>>

\* for sm in sitemaps: ... parse_sitemap_urls(conn, site_id, sitemap_url,
\* max_urls) up to its loop. The reader never reads the store, so the entries
\* its generator will yield are fixed when it is created.
IngestSitemap ==
    /\ ipc = "loop" /\ queue # <<>>
    /\ IF Head(queue).url = ""
       THEN /\ queue' = Tail(queue)
            /\ UNCHANGED <<ipc, pending, failing, count>>
       ELSE /\ LET y == discover_from_roots(<<Head(queue).url>>, cap) IN
               pending' = y.items /\ failing' = y.raised
            /\ count' = 0
            /\ ipc' = "items"
            /\ UNCHANGED queue
    /\ UNCHANGED <<site_arg, committed, total_urls, upserted, storeVars,
                   readerVars, migVars>>

\* The keyword arguments parse_sitemap_urls gives upsert_url for one entry.
IngestUrlArgs(site_id, item) ==
    [site_id |-> site_id, url |-> item.loc, in_sitemap |-> Some(TRUE),
     http_status |-> None, seen_now |-> TRUE, last_modified |-> item.lastmod,
     change_freq |-> item.changefreq, priority |-> item.priority]

\* A plausible slip: upsert_url without its `with conn:` block, which leaves
\* the rows it writes in the connection's open transaction.
WithConn_NoCommit(before, after) == before

\* `with conn:` in upsert_url: leaving the block without an exception
\* commits what the block wrote.
WithConn(before, after) == after

\* one turn of the loop of parse_sitemap_urls: upsert_url(...); count += 1
IngestItem ==
    /\ ipc = "items" /\ pending # <<>>
    /\ LET a == IngestUrlArgs(Head(queue).site_id, Head(pending)) IN
       /\ upsert_url(a)
       /\ upserted' = Append(upserted, a)
    /\ committed' = WithConn(committed, urls')
    /\ pending' = Tail(pending)
    /\ count' = count + 1
    /\ UNCHANGED <<ipc, site_arg, queue, failing, total_urls, readerVars, migVars>>

\* The generator raises in parse_sitemap_urls: neither parse_sitemap_urls
\* nor _cmd_ingest_sitemaps nor main catches, so the exception leaves
\* `with connect(DB_PATH) as conn:`, whose exit rolls the connection back to
\* its last commit, and ends the run.
IngestRaise ==
    /\ ipc = "items" /\ pending = <<>> /\ failing
    /\ ipc' = "raised"
    /\ urls' = committed
    /\ UNCHANGED <<sites, sitemaps, inspections, now, call, ret, ncalls>>
    /\ UNCHANGED <<site_arg, queue, pending, failing, committed, count,
                   total_urls, upserted, readerVars, migVars>>

\* return count; total_urls += urls
IngestSitemapDone ==
    /\ ipc = "items" /\ pending = <<>> /\ ~failing
    /\ total_urls' = total_urls + count
    /\ queue' = Tail(queue)
    /\ ipc' = "loop"
    /\ UNCHANGED <<site_arg, pending, failing, committed, count, upserted,
                   storeVars, readerVars, migVars>>

\* the loop over the sitemaps is exhausted: the `with connect(...)` block is
\* left without an exception, which commits.
IngestDone ==
    /\ ipc = "loop" /\ queue = <<>>
    /\ ipc' = "done"
    /\ committed' = urls
    /\ UNCHANGED <<site_arg, queue, pending, failing, count, total_urls, upserted,
                   storeVars, readerVars, migVars>>

\* ------------------------------------------------------------------------
\* Connection and migrations (database.py)
\* ------------------------------------------------------------------------
\* The version numbers of MIGRATIONS, in list order.
MIGRATIONS == <<1>>

\* The paths the program opens: DEFAULT_DB_PATH, DB_PATH and a --db argument.
DbPaths == {".seoaudmach/seo_audit_machine.db", "database/seo_audit_machine.db",
            "other.db"}

\* A storage file: whether it exists, whether it has the schema_migrations
\* table, the versions recorded there (in insertion order), the versions
\* whose script has created all its tables, the versions whose script has
\* created only some of them, and, as history, every complete run of a
\* migration script on the file.
NoFile ==
    [exists |-> FALSE, ledger_table |-> FALSE, ledger |-> <<>>, schema |-> {},
     partial |-> {}, script_runs |-> <<>>]

Range(f) == {f[i] : i \in DOMAIN f}

Idle == [op |-> "none", pc |-> "idle"]

\* connect(db_path) is called.
CallConnect(p) ==
    /\ proc.pc = "idle"
    /\ proc' = [op |-> "connect", path |-> p, pc |-> "open", in |-> "connect"]
    /\ UNCHANGED files

\* init_db(db_path) is called: it starts with connect(db_path).
CallInitDb(p) ==
    /\ proc.pc = "idle"
    /\ proc' = [op |-> "init_db", path |-> p, pc |-> "open", in |-> "connect"]
    /\ UNCHANGED files

\* migrate(conn) is called on a connection that connect returned earlier.
CallMigrate(p) ==
    /\ proc.pc = "idle"
    /\ files[p].exists
    /\ proc' = [op |-> "migrate", path |-> p, pc |-> "applied_versions",
                in |-> "migrate"]
    /\ UNCHANGED files

\* connect: first_time = not p.exists(); sqlite3.connect(p) and the PRAGMAs
\* create the file; if first_time: migrate(conn).
ConnectOpen ==
    /\ proc.pc = "open"
    /\ LET first_time == ~files[proc.path].exists IN
       /\ files' = [files EXCEPT ![proc.path].exists = TRUE]
       /\ proc' = [proc EXCEPT !.pc = IF first_time THEN "applied_versions"
                                      ELSE "connected"]

\* migrate: applied = set(_applied_versions(conn)), which first runs
\* CREATE TABLE IF NOT EXISTS schema_migrations.
AppliedVersions ==
    /\ proc.pc = "applied_versions"
    /\ files' = [files EXCEPT ![proc.path].ledger_table = TRUE]
    /\ proc' = [op |-> proc.op, path |-> proc.path, pc |-> "loop", in |-> proc.in,
                applied |-> Range(files[proc.path].ledger), i |-> 1]

\* A plausible slip: the check against the ledger is dropped.
MigrationPending_Always(version, applied) == TRUE

\* `if version in applied: continue` is not taken
MigrationPending(version, applied) == version \notin applied

MigrateSkip ==
    /\ proc.pc = "loop"
    /\ proc.i <= Len(MIGRATIONS)
    /\ ~MigrationPending(MIGRATIONS[proc.i], proc.applied)
    /\ proc' = [proc EXCEPT !.i = @ + 1]
    /\ UNCHANGED files

\* conn.executescript(sql) runs the whole script. executescript runs outside
\* the transaction that `with conn:` commits, so each CREATE statement is
\* durable as soon as it has run; the statements are CREATE ... IF NOT
\* EXISTS, so a run also completes what an earlier, stopped run left.
MigrateScript ==
    /\ proc.pc = "loop"
    /\ proc.i <= Len(MIGRATIONS)
    /\ MigrationPending(MIGRATIONS[proc.i], proc.applied)
    /\ files' = [files EXCEPT
                   ![proc.path].ledger_table = TRUE,
                   ![proc.path].schema = @ \cup {MIGRATIONS[proc.i]},
                   ![proc.path].partial = @ \ {MIGRATIONS[proc.i]},
                   ![proc.path].script_runs = Append(@, MIGRATIONS[proc.i])]
    /\ proc' = [proc EXCEPT !.pc = "record"]

\* conn.executescript(sql) stops after some, not all, of its statements: a
\* statement raises, or the process dies. `with conn:` rolls back, which
\* undoes nothing, the statements that ran being committed already.
MigrateScriptStopped ==
    /\ proc.pc = "loop"
    /\ proc.i <= Len(MIGRATIONS)
    /\ MigrationPending(MIGRATIONS[proc.i], proc.applied)
    /\ files' = [files EXCEPT
                   ![proc.path].ledger_table = TRUE,
                   ![proc.path].partial =
                       IF MIGRATIONS[proc.i] \in files[proc.path].schema
                       THEN @ ELSE @ \cup {MIGRATIONS[proc.i]}]
    /\ proc' = Idle

\* conn.execute("INSERT INTO schema_migrations(version) VALUES (?)"); version
\* is the PRIMARY KEY, so a second row for it raises sqlite3.IntegrityError.
MigrateRecord ==
    /\ proc.pc = "record"
    /\ IF MIGRATIONS[proc.i] \in Range(files[proc.path].ledger)
       THEN /\ proc' = Idle
            /\ UNCHANGED files
       ELSE /\ files' = [files EXCEPT
                           ![proc.path].ledger = Append(@, MIGRATIONS[proc.i])]
            /\ proc' = [proc EXCEPT !.pc = "loop", !.i = @ + 1]

\* the loop over MIGRATIONS is exhausted: migrate returns, to connect when
\* connect called it.
MigrateReturn ==
    /\ proc.pc = "loop"
    /\ proc.i > Len(MIGRATIONS)
    /\ proc' = IF proc.in = "connect"
               THEN [op |-> proc.op, path |-> proc.path, pc |-> "connected",
                     in |-> "connect"]
               ELSE Idle
    /\ UNCHANGED files

\* connect returns conn: to its caller, or to init_db, which then calls
\* migrate(conn).
ConnectReturn ==
    /\ proc.pc = "connected"
    /\ proc' = IF proc.op = "init_db"
               THEN [op |-> "init_db", path |-> proc.path,
                     pc |-> "applied_versions", in |-> "migrate"]
               ELSE Idle
    /\ UNCHANGED files

\* The process dies, or an exception leaves the call, between two steps:
\* what the steps before it wrote to the file stays. Between the script and
\* the INSERT, or before the INSERT's transaction commits, the ledger row
\* is not written.
Interrupt ==
    /\ proc.pc \notin {"idle", "connected"}
    /\ Len(files[proc.path].script_runs) < MaxScriptRuns
    /\ proc' = Idle
    /\ UNCHANGED files

MigOff ==
    /\ files = [p \in DbPaths |-> NoFile]
    /\ proc = Idle

\* ------------------------------------------------------------------------
\* Specifications
\* ------------------------------------------------------------------------
StoreEmpty ==
    /\ sites = {}
    /\ sitemaps = {}
    /\ urls = {}
    /\ inspections = {}
    /\ now = 0
    /\ call = [op |-> "none"]
    /\ ret = Raised
    /\ ncalls = 0

ReaderOff ==
    /\ web = [l \in Locs |-> [tag |-> "urlset", items |-> <<>>]]
    /\ roots = <<>>
    /\ cap = None
    /\ out = <<>>
    /\ rpc = "off"

IngestOff ==
    /\ ipc = "off"
    /\ site_arg = None
    /\ queue = <<>>
    /\ pending = <<>>
    /\ failing = FALSE
    /\ committed = {}
    /\ count = 0
    /\ total_urls = 0
    /\ upserted = <<>>

\* The store: a fresh file after connect() has run MIGRATIONS, then any
\* sequence of store operations, upsert_url being called the way the
\* program's call sites call it.
Init == StoreEmpty /\ ReaderOff /\ IngestOff /\ MigOff

StoreCall(budget, op) ==
    /\ ncalls < budget
    /\ op
    /\ UNCHANGED <<readerVars, ingestVars, migVars>>

Next ==
    \/ \E b \in BaseUrls, n \in Names : StoreCall(MaxCalls, add_site(b, n))
    \/ \E s \in SiteIds, u \in SitemapUrls, ls \in Stamps, p \in OptBools :
          StoreCall(MaxCalls, upsert_sitemap(s, u, ls, p))
    \/ \E a \in ProgramUrlArgs : StoreCall(MaxCalls, upsert_url(a))
    \/ \E u \in UrlIds, st \in IndexStatuses :
          StoreCall(MaxCalls, record_inspection(u, st))
    \/ Tick /\ UNCHANGED <<readerVars, ingestVars, migVars>>

Spec == Init /\ [][Next]_vars

\* The page rows: upsert_url with every argument list, on one site.
NextUrls ==
    \/ StoreCall(MaxUrlCalls, add_site("https://a/", Some("owner")))
    \/ \E a \in {x \in UrlArgs : x.site_id = 1} :
          StoreCall(MaxUrlCalls, upsert_url(a))
    \/ Tick /\ UNCHANGED <<readerVars, ingestVars, migVars>>

SpecUrls == Init /\ [][NextUrls]_vars

\* The inspections and the report: record_inspection with every argument
\* list, the other operations called the way sync-sites calls them.
NextInspect ==
    \/ \E b \in BaseUrls : StoreCall(MaxInspectCalls, add_site(b, Some("owner")))
    \/ StoreCall(MaxInspectCalls, upsert_sitemap(1, "sm1", None, Some(FALSE)))
    \/ \E a \in {x \in ProgramUrlArgs : IsNone(x.in_sitemap)} :
          StoreCall(MaxInspectCalls, upsert_url(a))
    \/ \E u \in UrlIds, st \in IndexStatuses :
          StoreCall(MaxInspectCalls, record_inspection(u, st))
    \/ Tick /\ UNCHANGED <<readerVars, ingestVars, migVars>>

SpecInspect == Init /\ [][NextInspect]_vars

\* The reader: any tree of documents, any root list, any cap.
InitReader ==
    /\ StoreEmpty /\ IngestOff /\ MigOff
    /\ web \in Webs
    /\ roots \in RootLists
    /\ cap \in Caps
    /\ out = <<>>
    /\ rpc = "ready"

NextReader == Discover /\ UNCHANGED <<storeVars, ingestVars, migVars>>

SpecReader == InitReader /\ [][NextReader]_vars

\* The reader on a site that does not serve every location well.
InitReaderFaults ==
    /\ StoreEmpty /\ IngestOff /\ MigOff
    /\ web \in FaultyWebs
    /\ roots \in RootLists
    /\ cap \in Caps
    /\ out = <<>>
    /\ rpc = "ready"

SpecReaderFaults == InitReaderFaults /\ [][NextReader]_vars

\* One ingest-sitemaps run on a store that sync-sites filled with a site and
\* its sitemaps, over any tree of documents.
SiteRowA == [id |-> 1, base_url |-> "https://a/", name |-> Some("owner"), created_at |-> 0]
SitemapRow(id, url) ==
    [id |-> id, site_id |-> 1, url |-> url, last_submitted |-> None,
     is_pending |-> Some(0), discovered_at |-> 0]

IngestInit(webs) ==
    /\ sites = {SiteRowA}
    /\ sitemaps \in {{SitemapRow(1, "sm1")},
                     {SitemapRow(1, "sm1"), SitemapRow(2, "sm2")},
                     {SitemapRow(1, "sm2"), SitemapRow(2, "sm1")}}
    /\ urls = {}
    /\ inspections = {}
    /\ now = 0
    /\ call = [op |-> "none"]
    /\ ret = Raised
    /\ ncalls = 0
    /\ web \in webs
    /\ roots = <<>>
    /\ cap \in Caps
    /\ out = <<>>
    /\ rpc = "off"
    /\ ipc = "idle"
    /\ site_arg = None
    /\ queue = <<>>
    /\ pending = <<>>
    /\ failing = FALSE
    /\ committed = {}
    /\ count = 0
    /\ total_urls = 0
    /\ upserted = <<>>
    /\ MigOff

InitIngest == IngestInit(Webs)

NextIngest ==
    \/ \E b \in BaseUrls : IngestStart(b)
    \/ IngestSitemap
    \/ IngestItem
    \/ IngestSitemapDone
    \/ IngestDone

SpecIngest == InitIngest /\ [][NextIngest]_vars

\* The same run on a site that does not serve every location well.
InitIngestFaults == IngestInit(FaultyWebs)

NextIngestFaults ==
    \/ NextIngest
    \/ IngestRaise

SpecIngestFaults == InitIngestFaults /\ [][NextIngestFaults]_vars

\* The storage files: any sequence of connect, init_db and migrate calls, one
\* at a time, on files that do not exist at first.
InitMigrate == StoreEmpty /\ ReaderOff /\ IngestOff /\ MigOff

MigStep(step) == step /\ UNCHANGED <<storeVars, readerVars, ingestVars>>

NextMigrate ==
    \/ \E p \in DbPaths : MigStep(CallConnect(p))
    \/ \E p \in DbPaths : MigStep(CallInitDb(p))
    \/ \E p \in DbPaths : MigStep(CallMigrate(p))
    \/ MigStep(ConnectOpen)
    \/ MigStep(AppliedVersions)
    \/ MigStep(MigrateSkip)
    \/ MigStep(MigrateScript)
    \/ MigStep(MigrateRecord)
    \/ MigStep(MigrateReturn)
    \/ MigStep(ConnectReturn)

SpecMigrate == InitMigrate /\ [][NextMigrate]_vars

\* The same calls, any of which may be cut short by a crash or an exception.
NextMigrateFaults ==
    \/ NextMigrate
    \/ MigStep(MigrateScriptStopped)
    \/ MigStep(Interrupt)

SpecMigrateFaults == InitMigrate /\ [][NextMigrateFaults]_vars

\* ========================================================================
\* Properties
\* ========================================================================
NoDuplicates(q) == \A i, j \in DOMAIN q : i # j => q[i] # q[j]
Ascending(q) == \A i, j \in DOMAIN q : i < j => q[i] < q[j]
Occurrences(q, v) == Cardinality({i \in DOMAIN q : q[i] = v})
KeepOrTake(stored, supplied) == IF IsNone(supplied) THEN stored ELSE supplied

\* ---- C1 -----------------------------------------------------------------
\* The full depth-first expansion: roots in order, children in document
\* order, entries in document order, elements without a location skipped.
HasLoc(el) == ~IsNone(el.loc)

ExpandEntries(els) ==
    LET kept == SelectSeq(els, HasLoc) IN
    [k \in 1..Len(kept) |-> DiscoveredURL(Val(kept[k].loc), kept[k].lastmod)]

RECURSIVE ExpandLoc(_)
RECURSIVE ExpandChildren(_, _)
ExpandChildren(cs, k) ==
    IF k > Len(cs) THEN <<>>
    ELSE (IF IsNone(cs[k]) THEN <<>> ELSE ExpandLoc(Val(cs[k])))
         \o ExpandChildren(cs, k + 1)

ExpandLoc(l) ==
    IF web[l].tag = "sitemapindex"
    THEN ExpandChildren(web[l].items, 1)
    ELSE ExpandEntries(web[l].items)

RECURSIVE ExpandRoots(_, _)
ExpandRoots(rs, k) ==
    IF k > Len(rs) THEN <<>> ELSE ExpandLoc(rs[k]) \o ExpandRoots(rs, k + 1)

\* C1: discover_from_roots yields the full expansion of its roots when no
\* cap is given, and exactly the first M entries of it for every cap M with
\* 0 <= M <= T, T the length of the expansion.
C1_CapYieldsPrefix ==
    rpc = "done" =>
        LET full == ExpandRoots(roots, 1) IN
        IF IsNone(cap) THEN out = full
        ELSE Val(cap) <= Len(full) => out = SubSeq(full, 1, Val(cap))

\* What the reader does keep: the same, for every cap of at least 1.
ReaderPrefixForPositiveCap ==
    (rpc = "done" /\ ~IsNone(cap) /\ Val(cap) >= 1) =>
        LET full == ExpandRoots(roots, 1) IN
        out = SubSeq(full, 1, IF Val(cap) <= Len(full) THEN Val(cap) ELSE Len(full))

\* ---- C2 -----------------------------------------------------------------
\* C2: in one ingest-sitemaps run with cap M the number of upsert_url calls,
\* over all sitemaps of the site together, never exceeds M. Stated for
\* M >= 1, so that the cap of 0 of C1 is not what refutes it.
C2_RunWithinCap ==
    (~IsNone(cap) /\ Val(cap) >= 1) => Len(upserted) <= Val(cap)

C4_UniqueKeys ==
    /\ \A r1, r2 \in sites : r1.base_url = r2.base_url => r1 = r2
    /\ \A r1, r2 \in urls : (r1.site_id = r2.site_id /\ r1.url = r2.url) => r1 = r2
    /\ \A r1, r2 \in sitemaps : (r1.site_id = r2.site_id /\ r1.url = r2.url) => r1 = r2
    /\ \A r1, r2 \in sites : r1.id = r2.id => r1 = r2
    /\ \A r1, r2 \in urls : r1.id = r2.id => r1 = r2
    /\ \A r1, r2 \in sitemaps : r1.id = r2.id => r1 = r2
    /\ (call.op = "upsert_url" /\ ret # Raised) =>
          LET rows == UrlByKey(call.a.site_id, call.a.url) IN
          /\ Cardinality(rows) = 1
          /\ \A r \in rows :
                /\ ret = Returned(r.id)
                /\ call.a.in_sitemap = Some(TRUE) => r.in_sitemap = 1

\* The same page URL upserted a second time with in_sitemap=True.
C4_Witness ==
    /\ call.op = "upsert_url" /\ call.hit /\ call.a.in_sitemap = Some(TRUE)
    /\ \E r \in urls : /\ r.site_id = call.a.site_id /\ r.url = call.a.url
                       /\ r.in_sitemap = 1 /\ ret = Returned(r.id)

\* ---- C5 -----------------------------------------------------------------
\* C5: add_site on a stored base_url returns the existing id, creates no
\* row, and changes the stored name only when it was unset and a name is
\* supplied; a name that is set is never overwritten.
C5_NameSetOnce ==
    [][(ncalls' = ncalls + 1 /\ call'.op = "add_site" /\ call'.hit) =>
          \E r \in sites :
             /\ r.base_url = call'.base_url
             /\ ret' = Returned(r.id)
             /\ Cardinality(sites') = Cardinality(sites)
             /\ \E r2 \in sites' :
                   /\ r2.id = r.id /\ r2.base_url = r.base_url
                   /\ r2.name # r.name => (IsNone(r.name) /\ ~IsNone(call'.name))
                   /\ ~IsNone(r.name) => r2.name = r.name]_vars

\* ---- C6 -----------------------------------------------------------------
\* What the sitemaps table stores for an is_pending argument.
C6_Stored(is_pending) ==
    IF IsNone(is_pending) THEN None
    ELSE IF Val(is_pending) THEN Some(1) ELSE Some(0)

\* C6: an upsert_sitemap call on a stored (site_id, url) returns the stored
\* row's id, adds no row and changes no other row, and leaves the row with
\* the call's last_submitted and is_pending, absent values included, and
\* with its url, site_id and discovered_at; a call that creates the row
\* returns the new row's id.
C6_LastWriteWins ==
    [][(ncalls' = ncalls + 1 /\ call'.op = "upsert_sitemap") =>
          LET old == SitemapByKey(call'.site_id, call'.url) IN
          IF old # {}
          THEN \E r \in old :
                 /\ ret' = Returned(r.id)
                 /\ sitemaps' = (sitemaps \ {r}) \cup
                       {[id |-> r.id, site_id |-> r.site_id, url |-> r.url,
                         discovered_at |-> r.discovered_at,
                         last_submitted |-> call'.last_submitted,
                         is_pending |-> C6_Stored(call'.is_pending)]}
          ELSE ret' # Raised =>
                 \E n \in sitemaps' :
                    /\ sitemaps' = sitemaps \cup {n} /\ n \notin sitemaps
                    /\ ret' = Returned(n.id)
                    /\ n.site_id = call'.site_id /\ n.url = call'.url
                    /\ n.last_submitted = call'.last_submitted
                    /\ n.is_pending = C6_Stored(call'.is_pending)]_vars

\* A second upsert_sitemap call, made in a later second and supplying
\* neither value, has left both absent.
C6_Witness ==
    /\ call.op = "upsert_sitemap" /\ call.hit
    /\ IsNone(call.last_submitted) /\ IsNone(call.is_pending)
    /\ \E r \in SitemapByKey(call.site_id, call.url) :
          /\ ret = Returned(r.id)
          /\ IsNone(r.last_submitted) /\ IsNone(r.is_pending)
          /\ r.discovered_at < now

\* ---- C7 -----------------------------------------------------------------
\* C7: every record_inspection call on an existing page adds exactly one
\* inspection row, with an id no row had, and returns that id; every other
\* step leaves the inspection rows as they are; no step changes or removes
\* an inspection row.
C7_AppendOnly ==
    [][/\ inspections \subseteq inspections'
       /\ IF /\ ncalls' = ncalls + 1 /\ call'.op = "record_inspection"
             /\ ForeignKeyOk(urls, call'.url_id)
          THEN \E n \in inspections' :
                 /\ inspections' = inspections \cup {n}
                 /\ n.id \notin {i.id : i \in inspections}
                 /\ n.url_id = call'.url_id
                 /\ ret' = Returned(n.id)
                 /\ Cardinality({i \in inspections' : i.url_id = call'.url_id})
                      = Cardinality(InspectionsOf(call'.url_id)) + 1
          ELSE inspections' = inspections]_vars

\* Three record_inspection calls on one page have left three rows.
C7_Witness ==
    /\ call.op = "record_inspection" /\ ret # Raised
    /\ Cardinality(InspectionsOf(call.url_id)) = 3
    /\ ncalls = 5

\* ---- C8 -----------------------------------------------------------------
\* The pages of a site the report is to list: those whose latest inspection
\* (greatest inspected_at, then greatest id) is absent or has an
\* index_status that is absent or not "INDEXED".
C8_NotIndexed(site_id) ==
    {u \in urls :
        /\ u.site_id = site_id
        /\ LET l == latest_inspection(u.id) IN
           \/ IsNone(l)
           \/ IsNone(Val(l).index_status)
           \/ Val(l).index_status # Some("INDEXED")}

\* C8: in every store state the report of a site has exactly one entry for
\* each such page, no entry for any other page, and lists its entries by
\* ascending page id.
C8_ReportMatchesLatest ==
    \A s \in SiteIds :
       LET rep == not_indexed_but_internally_linked(s) IN
       /\ \A u \in C8_NotIndexed(s) :
             Cardinality({k \in DOMAIN rep : rep[k].url_id = u.id}) = 1
       /\ \A k \in DOMAIN rep : \E u \in C8_NotIndexed(s) : rep[k].url_id = u.id
       /\ \A j, k \in DOMAIN rep : j < k => rep[j].url_id <= rep[k].url_id

\* What the report does keep: the same, in the states where no two
\* inspections of one page carry the same inspected_at.
ReportMatchesLatestWithoutTies ==
    (\A i, j \in inspections :
        (i.url_id = j.url_id /\ i.inspected_at = j.inspected_at) => i = j)
    => C8_ReportMatchesLatest

\* ---- C9 -----------------------------------------------------------------
\* C9: on every storage file each version's script has run at most once and
\* is recorded at most once, the scripts have run in ascending version
\* order, and no step runs the script of a version that is in the ledger.
C9_MigrationsOnce ==
    [][\A p \in DbPaths :
          /\ NoDuplicates(files'[p].script_runs)
          /\ NoDuplicates(files'[p].ledger)
          /\ Ascending(files'[p].script_runs)
          /\ Ascending(files'[p].ledger)
          /\ \A v \in Range(files[p].ledger) :
                Occurrences(files'[p].script_runs, v)
                   = Occurrences(files[p].script_runs, v)]_vars

\* A migrate call on a file whose ledger holds version 1 has gone through
\* MIGRATIONS without running a script.
C9_Witness ==
    /\ proc.op = "migrate" /\ proc.pc = "loop" /\ proc.i > Len(MIGRATIONS)
    /\ files[proc.path].ledger = <<1>>
    /\ files[proc.path].script_runs = <<1>>

\* ---- C11 ----------------------------------------------------------------
\* C11: whenever no call is in progress on a storage file, a crash or a
\* failure inside migrate included, each version's tables are there, all or
\* some of them, exactly when the version is recorded in schema_migrations.
C11_StepAllOrNothing ==
    proc.pc = "idle" =>
        \A p \in DbPaths : \A v \in Range(MIGRATIONS) :
            (v \in files[p].schema \cup files[p].partial)
                <=> (v \in Range(files[p].ledger))

\* ---- C12 ----------------------------------------------------------------
\* C12: when connect returns a connection for a storage file, every version
\* of MIGRATIONS is in the file's ledger and has all its tables.
C12_ConnectedIsMigrated ==
    proc.pc = "connected" =>
        \A v \in Range(MIGRATIONS) :
            /\ v \in Range(files[proc.path].ledger)
            /\ v \in files[proc.path].schema

\* ---- C13 ----------------------------------------------------------------
\* C13: when the reader raises during an ingest-sitemaps run, the run ends
\* raised at that step and takes no step afterwards (no further entry, no
\* later sitemap, no retry); the step changes no page row, so every
\* upsert_url call made before it still has its row in urls and the rows
\* are the committed ones.
C13_FailureAbortsRun ==
    [][/\ ipc # "raised"
       /\ (ipc = "items" /\ pending = <<>> /\ failing) => ipc' = "raised"
       /\ ipc' = "raised" =>
             /\ urls' = urls
             /\ committed' = urls'
             /\ upserted' = upserted
             /\ queue' = queue
             /\ \A i \in DOMAIN upserted :
                   \E r \in urls' : /\ r.site_id = upserted[i].site_id
                                    /\ r.url = upserted[i].url
                                    /\ r.in_sitemap = 1]_vars

\* A run that raised in its first sitemap after it had upserted a page,
\* with a second sitemap still waiting.
C13_Witness ==
    /\ ipc = "raised"
    /\ Len(upserted) >= 1
    /\ Len(queue) = 2
    /\ \E r \in urls : r.url = upserted[1].url
    /\ committed = urls

\* ---- C14 ----------------------------------------------------------------
\* C14: when the document at the first root, which the reader always
\* fetches, is well-formed XML with a root element that is neither a
\* sitemap index nor a page list, the reader raises.
C14_UnknownRootRaises ==
    (rpc # "ready" /\ web[roots[1]].tag = "html") => rpc = "raised"

\* ---- C10 ----------------------------------------------------------------
\* C10: when the run's last upsert_url call created the page row, the row
\* holds the last_modified, change_freq and priority the call supplied, and
\* in_sitemap = 1.
C10_MetadataOnFirstIngestion ==
    (ipc # "off" /\ call.op = "upsert_url" /\ ~call.hit /\ ret # Raised) =>
        \E r \in UrlByKey(call.a.site_id, call.a.url) :
           /\ r.in_sitemap = 1
           /\ ~IsNone(call.a.last_modified) => r.last_modified = call.a.last_modified
           /\ ~IsNone(call.a.change_freq) => r.change_freq = call.a.change_freq
           /\ ~IsNone(call.a.priority) => r.priority = call.a.priority

====
